---- MODULE Spec2Model ----
(***************************************************************************)
(* graphdeck: the deterministic diagram compiler (assets.py), the outline  *)
(* normalizer and deriver and the backend orchestrator (llm.py).           *)
(*                                                                         *)
(* A Python str is modelled as the sequence of its characters, each a      *)
(* one-character string, so that strip, split, slicing and the regular     *)
(* expressions of the source are computed character by character.          *)
(***************************************************************************)
EXTENDS Integers, Sequences, FiniteSets, TLC

\* ------------------------------------------------------------------------
\* Bounds of the model
\* ------------------------------------------------------------------------
MaxBullets == 2

\* ------------------------------------------------------------------------
\* Python str primitives
\* ------------------------------------------------------------------------
S(s) == [i \in 1..Len(s) |-> SubSeq(s, i, i)]

Range(f) == {f[i] : i \in DOMAIN f}
MinOf(I) == CHOOSE i \in I : \A j \in I : i <= j
MaxOf(I) == CHOOSE i \in I : \A j \in I : i >= j

\* a character outside ASCII is one element too, named by its code point
BulletGlyph == "u2022"
RightArrow == "u2192"

Whitespace == {" ", "\t", "\n", "\r"}
UpperLetters == S("ABCDEFGHIJKLMNOPQRSTUVWXYZ")
LowerLetters == S("abcdefghijklmnopqrstuvwxyz")
DigitChars == S("0123456789")
Alnum == Range(UpperLetters) \cup Range(LowerLetters) \cup Range(DigitChars)

\* str.strip()
strip(s) ==
  LET keep == {i \in 1..Len(s) : s[i] \notin Whitespace}
  IN IF keep = {} THEN <<>> ELSE SubSeq(s, MinOf(keep), MaxOf(keep))

\* str.lower() leaving every character as it is
lower_Identity(s) == s

\* str.lower(), on the ASCII letters
lowerChar(c) ==
  IF c \in Range(UpperLetters)
  THEN LowerLetters[CHOOSE k \in 1..26 : UpperLetters[k] = c]
  ELSE c
lower(s) == [i \in 1..Len(s) |-> lowerChar(s[i])]

\* s[:n]
Slice(s, n) == SubSeq(s, 1, IF Len(s) < n THEN Len(s) ELSE n)

startswith(s, p) == Len(s) >= Len(p) /\ SubSeq(s, 1, Len(p)) = p

\* the positions where p occurs in s
Occurrences(s, p) == {i \in 1..(Len(s) - Len(p) + 1) : SubSeq(s, i, i + Len(p) - 1) = p}

\* p in s
contains(s, p) == Occurrences(s, p) # {}

\* str.split(sep)
RECURSIVE split(_, _)
split(s, sep) ==
  IF ~contains(s, sep) THEN <<s>>
  ELSE LET i == MinOf(Occurrences(s, sep))
       IN <<SubSeq(s, 1, i - 1)>> \o split(SubSeq(s, i + Len(sep), Len(s)), sep)

\* re.split on a set of single-character separators
RECURSIVE splitChars(_, _)
splitChars(s, seps) ==
  LET at == {i \in 1..Len(s) : s[i] \in seps}
  IN IF at = {} THEN <<s>>
     ELSE LET i == MinOf(at)
          IN <<SubSeq(s, 1, i - 1)>> \o splitChars(SubSeq(s, i + 1, Len(s)), seps)

\* stripNonEmpty keeping the parts that are empty once trimmed
stripNonEmpty_KeepEmpty(parts) == [i \in DOMAIN parts |-> strip(parts[i])]

\* [strip(p) for p in parts if strip(p)]
RECURSIVE stripNonEmpty(_)
stripNonEmpty(parts) ==
  IF parts = <<>> THEN <<>>
  ELSE LET p == strip(Head(parts))
       IN (IF p = <<>> THEN <<>> ELSE <<p>>) \o stripNonEmpty(Tail(parts))

\* "".join(ss), by halves
RECURSIVE Concat(_)
Concat(ss) ==
  IF ss = <<>> THEN <<>>
  ELSE IF Len(ss) = 1 THEN ss[1]
  ELSE LET m == Len(ss) \div 2
       IN Concat(SubSeq(ss, 1, m)) \o Concat(SubSeq(ss, m + 1, Len(ss)))

\* Dec giving the last digit only
Dec_LastDigit(n) == <<DigitChars[(n % 10) + 1]>>

\* str(n) of a natural number
RECURSIVE Dec(_)
Dec(n) == IF n < 10 THEN <<DigitChars[n + 1]>> ELSE Dec(n \div 10) \o <<DigitChars[(n % 10) + 1]>>

\* ------------------------------------------------------------------------
\* assets.py: the deterministic compiler
\* ------------------------------------------------------------------------
SlugCap == 40

\* _slug leaving every character as it is
_slug_NoSub(s) ==
  LET cut == Slice(strip(s), SlugCap)
  IN IF cut = <<>> THEN S("N") ELSE cut

\* _slug without the cut at 40 characters
_slug_NoCap(s) ==
  LET t == strip(s)
      sub == Concat([i \in 1..Len(t) |->
                IF t[i] \in Alnum THEN <<t[i]>>
                ELSE IF i > 1 /\ t[i - 1] \notin Alnum THEN <<>> ELSE <<"_">>])
  IN IF sub = <<>> THEN S("N") ELSE sub

\* re.sub(r"[^A-Za-z0-9]+", "_", s.strip())[:40] or "N"
_slug(s) ==
  LET t == strip(s)
      sub == Concat([i \in 1..Len(t) |->
                IF t[i] \in Alnum THEN <<t[i]>>
                ELSE IF i > 1 /\ t[i - 1] \notin Alnum THEN <<>> ELSE <<"_">>])
      cut == Slice(sub, SlugCap)
  IN IF cut = <<>> THEN S("N") ELSE cut

\* html.escape(s.strip())
escChar(c) ==
  CASE c = "&" -> S("&amp;")
    [] c = "<" -> S("&lt;")
    [] c = ">" -> S("&gt;")
    [] c = "\"" -> S("&quot;")
    [] c = "'" -> S("&#x27;")
    [] OTHER -> <<c>>
_esc(s) == LET t == strip(s) IN Concat([i \in 1..Len(t) |-> escChar(t[i])])

\* _split_colon_subitems: <<head, items>>, items = <<>> standing for None
\* a split that keeps the empty items of the tail
_split_colon_subitems_Unfiltered(bullet) ==
  IF contains(bullet, S(":"))
  THEN LET i == MinOf(Occurrences(bullet, S(":")))
           h == SubSeq(bullet, 1, i - 1)
           ps == splitChars(SubSeq(bullet, i + 1, Len(bullet)), {",", ";", BulletGlyph, "|"})
       IN <<strip(h), [k \in DOMAIN ps |-> strip(ps[k])]>>
  ELSE <<bullet, <<>>>>

_split_colon_subitems(bullet) ==
  IF contains(bullet, S(":"))
  THEN LET i == MinOf(Occurrences(bullet, S(":")))
           h == SubSeq(bullet, 1, i - 1)
           t == SubSeq(bullet, i + 1, Len(bullet))
           items == stripNonEmpty(splitChars(t, {",", ";", BulletGlyph, "|"}))
       IN IF items # <<>> THEN <<strip(h), items>> ELSE <<bullet, <<>>>>
  ELSE <<bullet, <<>>>>

\* a header that asks for a left-to-right chart
HeaderLine_LR == [kind |-> "header", text |-> S("flowchart LR")]

HeaderLine == [kind |-> "header", text |-> S("flowchart TD")]
ClassDefLines ==
  << [kind |-> "classDef", name |-> "title",
      text |-> S("  classDef title fill:#202a45,stroke:#6b86ff,stroke-width:1px,color:#e8ecff,rx:8,ry:8")],
     [kind |-> "classDef", name |-> "block",
      text |-> S("  classDef block fill:#121a2b,stroke:#6b86ff,stroke-width:1px,color:#e8ecff,rx:8,ry:8")],
     [kind |-> "classDef", name |-> "warn",
      text |-> S("  classDef warn  fill:#2b2312,stroke:#fbbf24,color:#ffeab6,rx:8,ry:8")] >>

\* f'  {id}{br_open}"{label}"{br_close}:::{klass}'
NodeLine(id, open, label, close, klass) ==
  [kind |-> "node", id |-> id, open |-> open, label |-> label, close |-> close, klass |-> klass]
\* f"  {from} --> {to}"
EdgeLine(from, to) == [kind |-> "edge", from |-> from, to |-> to]

\* the text of one line
LineText(l) ==
  CASE l.kind = "node" ->
         S("  ") \o l.id \o S(l.open) \o S("\"") \o l.label \o S("\"") \o S(l.close)
           \o S(":::") \o S(l.klass)
    [] l.kind = "edge" -> S("  ") \o l.from \o S(" --> ") \o l.to
    [] OTHER -> l.text

\* "\n".join(lines) + "\n"
RECURSIVE JoinLines(_)
JoinLines(ls) == IF ls = <<>> THEN <<>> ELSE LineText(Head(ls)) \o S("\n") \o JoinLines(Tail(ls))

\* ChainLines with every step hanging from the first node (prev never moved on)
RECURSIVE ChainLines_Fan(_, _, _, _, _)
ChainLines_Fan(node, tag, prev, steps, j) ==
  IF steps = <<>> THEN <<>>
  ELSE LET sid == node \o S("_") \o S(tag) \o Dec(j)
       IN << NodeLine(sid, "[", _esc(Head(steps)), "]", "block"), EdgeLine(prev, sid) >>
          \o ChainLines_Fan(node, tag, prev, Tail(steps), j + 1)

\* ChainLines with the edge line appended before the line of the node it leads to
RECURSIVE ChainLines_EdgeFirst(_, _, _, _, _)
ChainLines_EdgeFirst(node, tag, prev, steps, j) ==
  IF steps = <<>> THEN <<>>
  ELSE LET sid == node \o S("_") \o S(tag) \o Dec(j)
       IN << EdgeLine(prev, sid), NodeLine(sid, "[", _esc(Head(steps)), "]", "block") >>
          \o ChainLines_EdgeFirst(node, tag, sid, Tail(steps), j + 1)

\* the loop bodies at lines 81-85 and 94-98: one block node per step, chained
RECURSIVE ChainLines(_, _, _, _, _)
ChainLines(node, tag, prev, steps, j) ==
  IF steps = <<>> THEN <<>>
  ELSE LET sid == node \o S("_") \o S(tag) \o Dec(j)
       IN << NodeLine(sid, "[", _esc(Head(steps)), "]", "block"), EdgeLine(prev, sid) >>
          \o ChainLines(node, tag, sid, Tail(steps), j + 1)

is_decision(txt) == contains(txt, S("?")) \/ startswith(lower(txt), S("decision"))

\* one iteration of the loop at line 68: the lines appended, or the exception raised
BulletLines(root_id, i, raw) ==
  LET txt == strip(raw)
      node == S("B") \o Dec(i) \o S("_") \o _slug(txt)
      dec == is_decision(txt)
      br_open == IF dec THEN "{" ELSE "["
      br_close == IF dec THEN "}" ELSE "]"
      klass == IF dec THEN "warn" ELSE "block"
  IN IF contains(txt, S("->")) /\ ~dec
     THEN LET parts == stripNonEmpty(split(txt, S("->")))
              head == node \o S("_S0")
          IN IF parts = <<>>
             THEN [raised |-> TRUE, exc |-> "IndexError", lines |-> <<>>]
             ELSE [raised |-> FALSE, exc |-> "",
                   lines |-> << NodeLine(head, br_open, _esc(parts[1]), br_close, klass),
                                EdgeLine(root_id, head) >>
                             \o ChainLines(node, "S", head, Tail(parts), 1)]
     ELSE LET hi == _split_colon_subitems(txt)
              hid == node \o S("_H")
          IN IF hi[2] # <<>>
             THEN [raised |-> FALSE, exc |-> "",
                   lines |-> << NodeLine(hid, br_open, _esc(hi[1]), br_close, klass),
                                EdgeLine(root_id, hid) >>
                             \o ChainLines(node, "I", hid, hi[2], 1)]
             ELSE [raised |-> FALSE, exc |-> "",
                   lines |-> << NodeLine(node, br_open, _esc(txt), br_close, klass),
                                EdgeLine(root_id, node) >>]

\* bullets = [b for b in (bullets or []) if str(b).strip()]
NonBlank(bs) == SelectSeq(bs, LAMBDA b : strip(b) # <<>>)

\* BuildLoop with the last bullet left out (range(len - 1) for range(len))
RECURSIVE BuildLoop_SkipLast(_, _, _, _)
BuildLoop_SkipLast(root_id, bs, i, lines) ==
  IF i >= Len(bs) THEN [raised |-> FALSE, exc |-> "", lines |-> lines]
  ELSE LET r == BulletLines(root_id, i, bs[i])
       IN IF r.raised THEN [raised |-> TRUE, exc |-> r.exc, lines |-> <<>>]
          ELSE BuildLoop_SkipLast(root_id, bs, i + 1, lines \o r.lines)

RECURSIVE BuildLoop(_, _, _, _)
BuildLoop(root_id, bs, i, lines) ==
  IF i > Len(bs) THEN [raised |-> FALSE, exc |-> "", lines |-> lines]
  ELSE LET r == BulletLines(root_id, i, bs[i])
       IN IF r.raised THEN [raised |-> TRUE, exc |-> r.exc, lines |-> <<>>]
          ELSE BuildLoop(root_id, bs, i + 1, lines \o r.lines)

RootTitle(t) == strip(IF t = <<>> THEN S("Slide") ELSE t)
RootId(t) == S("T_") \o _slug(RootTitle(t))

build_mermaid_from_title_bullets(t, bs) ==
  LET ttl == RootTitle(t)
      root_id == RootId(t)
  IN BuildLoop(root_id, NonBlank(bs), 1,
               <<HeaderLine>> \o ClassDefLines
                 \o <<NodeLine(root_id, "[", _esc(ttl), "]", "title")>>)

\* ------------------------------------------------------------------------
\* llm.py: Python values, and the dict objects a candidate list refers to
\* ------------------------------------------------------------------------
SlideCount == 6
TitleCap == 70
BulletCap == 120
BulletsPerSlide == 5

\* a Python value: None, a str, an int or a list of values
PyNone == [t |-> "none", s |-> <<>>, n |-> 0, items |-> <<>>]
PyStr(s) == [t |-> "str", s |-> s, n |-> 0, items |-> <<>>]
PyInt(n) == [t |-> "int", s |-> <<>>, n |-> n, items |-> <<>>]
PyList(items) == [t |-> "list", s |-> <<>>, n |-> 0, items |-> items]
StrList(ss) == PyList([i \in 1..Len(ss) |-> PyStr(ss[i])])
PyBool(b) == [t |-> "bool", s |-> <<>>, n |-> IF b THEN 1 ELSE 0, items |-> <<>>]

\* bool(v)
truthy(v) ==
  CASE v.t = "none" -> FALSE
    [] v.t = "str" -> v.s # <<>>
    [] v.t = "int" -> v.n # 0
    [] v.t = "list" -> v.items # <<>>

\* str(v)
pystr(v) ==
  CASE v.t = "none" -> S("None")
    [] v.t = "str" -> v.s
    [] v.t = "int" -> Dec(v.n)

\* iter(v): the elements a for loop visits, for a list and for a str
elements(v) ==
  IF v.t = "list" THEN v.items ELSE [i \in 1..Len(v.s) |-> PyStr(<<v.s[i]>>)]

\* an object of the heap: a dict with the keys in `has`, or an entry that is no
\* mapping (t = "str", "none", "int")
Dict(has, tv, bv) == [t |-> "dict", has |-> has, title |-> tv, bullets |-> bv]
Slide(ttl, bs) == Dict({"title", "bullets"}, PyStr(ttl), StrList(bs))
NonMapping(kind) == [t |-> kind, has |-> {}, title |-> PyNone, bullets |-> PyNone]

\* d.get(key)
get(d, key) == IF key \in d.has THEN d[key] ELSE PyNone

\* d[key] = v
setitem(d, key, v) == [d EXCEPT ![key] = v, !.has = @ \cup {key}]

\* the literal defaults at lines 330-336 and 366-372
Defaults ==
  << Slide(S("Context & Opportunity"),
           <<S("Why now"), S("Where value concentrates"), S("Impact on CX & ops")>>),
     Slide(S("Core Concepts"), <<S("Key idea 1"), S("Key idea 2"), S("Key idea 3")>>),
     Slide(S("Process / Flow"),
           <<S("Step 1 ") \o <<RightArrow>> \o S(" Step 2 ") \o <<RightArrow>> \o S(" Step 3"),
             S("Decision points"), S("Metrics: quality, speed, cost")>>),
     Slide(S("Use Cases"), <<S("Quick wins"), S("Medium bets"), S("Long bets")>>),
     Slide(S("Next Steps"),
           <<S("Pick pilot + KPI"), S("Baseline & iterate"), S("Scale what works")>>) >>

\* defaults[k] for a Python index k, negative counting from the end; 1-based here
PyIndex(k, len) == IF k < 0 THEN len + k + 1 ELSE k + 1

NoOutline == [slide_count |-> 0, sections |-> <<>>]
Raised(exc, h) == [raised |-> TRUE, exc |-> exc, heap |-> h, outline |-> NoOutline]
Returned(h, refs) ==
  [raised |-> FALSE, exc |-> "", heap |-> h,
   outline |-> [slide_count |-> SlideCount, sections |-> refs]]

\* lines 327-329: sections[0]["title"] = topic; sections[0]["bullets"] = []
ForceFirst(tp, h, secs) ==
  IF secs = <<>> THEN [raised |-> FALSE, exc |-> "", heap |-> h]
  ELSE IF h[secs[1]].t # "dict" THEN [raised |-> TRUE, exc |-> "TypeError", heap |-> h]
  ELSE [raised |-> FALSE, exc |-> "",
        heap |-> [h EXCEPT ![secs[1]] =
                    setitem(setitem(@, "title", PyStr(tp)), "bullets", PyList(<<>>))]]

\* Pad stopping one entry short (while len(sections) < 5)
RECURSIVE Pad_OneShort(_, _)
Pad_OneShort(refs, base) ==
  IF Len(refs) >= SlideCount - 1 THEN refs
  ELSE Pad_OneShort(Append(refs, base + PyIndex(Len(refs) - 1, Len(Defaults))), base)

\* Pad starting over from the first default, whatever the length of the list
RECURSIVE Pad_Restart(_, _)
Pad_Restart(refs, base) ==
  IF Len(refs) >= SlideCount THEN refs
  ELSE Pad_Restart(Append(refs, base + 1 + Cardinality({i \in DOMAIN refs : refs[i] > base})),
                   base)

\* lines 338-339: while len(sections) < 6: sections.append(defaults[len(sections)-1])
RECURSIVE Pad(_, _)
Pad(refs, base) ==
  IF Len(refs) >= SlideCount THEN refs
  ELSE Pad(Append(refs, base + PyIndex(Len(refs) - 1, Len(Defaults))), base)

\* [str(b).strip()[:120] for b in bv][:5]
TrimBullets(bv) ==
  LET es == elements(bv)
      all == [i \in 1..Len(es) |-> PyStr(Slice(strip(pystr(es[i])), BulletCap))]
  IN PyList(Slice(all, BulletsPerSlide))

\* lines 340-342, the loop over the six entries; i is the 0-based index
RECURSIVE TrimLoop(_, _, _)
TrimLoop(h, refs, i) ==
  IF i >= Len(refs) THEN [raised |-> FALSE, exc |-> "", heap |-> h]
  ELSE LET r == refs[i + 1]
           d == h[r]
           tv == get(d, "title")
           bv == get(d, "bullets")
       IN IF d.t # "dict" THEN [raised |-> TRUE, exc |-> "AttributeError", heap |-> h]
          ELSE IF truthy(tv) /\ tv.t # "str"
          THEN [raised |-> TRUE, exc |-> "AttributeError", heap |-> h]
          ELSE LET ttl == IF truthy(tv) THEN Slice(strip(tv.s), TitleCap) ELSE <<>>
                   h1 == [h EXCEPT ![r] = setitem(@, "title", PyStr(ttl))]
               IN IF i = 0
                  THEN TrimLoop([h1 EXCEPT ![r] = setitem(@, "bullets", PyList(<<>>))],
                                refs, i + 1)
                  ELSE IF ~truthy(bv)
                  THEN TrimLoop([h1 EXCEPT ![r] = setitem(@, "bullets", PyList(<<>>))],
                                refs, i + 1)
                  ELSE IF bv.t \notin {"list", "str"}
                  THEN [raised |-> TRUE, exc |-> "TypeError", heap |-> h1]
                  ELSE TrimLoop([h1 EXCEPT ![r] = setitem(@, "bullets", TrimBullets(bv))],
                                refs, i + 1)

\* _normalize_sections(topic, sections) on the heap h, secs the caller's list of
\* references: the heap afterwards, and the outline returned or the exception
_normalize_sections(tp, h, secs) ==
  LET first == ForceFirst(tp, h, secs)
  IN IF first.raised THEN Raised(first.exc, first.heap)
     ELSE LET base == Len(first.heap)
              refs == Pad(Slice(secs, SlideCount), base)
              done == TrimLoop(first.heap \o Defaults, refs, 0)
          IN IF done.raised THEN Raised(done.exc, done.heap)
             ELSE Returned(done.heap, Slice(refs, SlideCount))

\* ---- _outline_from_blog ----

\* s.strip(chars)
stripChars(s, chars) ==
  LET keep == {i \in 1..Len(s) : s[i] \notin chars}
  IN IF keep = {} THEN <<>> ELSE SubSeq(s, MinOf(keep), MaxOf(keep))

\* re.sub(r"\s+", " ", s)
collapseWs(s) ==
  Concat([i \in 1..Len(s) |->
            IF s[i] \notin Whitespace THEN <<s[i]>>
            ELSE IF i > 1 /\ s[i - 1] \in Whitespace THEN <<>> ELSE <<" ">>])

\* a line matched by (?m)^## +.+$ : "##", spaces, and at least one more character
IsH2(line) == startswith(line, S("## ")) /\ Len(line) >= 4

\* the pieces re.split leaves after each match: from the end of a heading line
\* to the start of the next heading line, or to the end of the text
BlockAfter(ls, k) ==
  LET later == {j \in (k + 1)..Len(ls) : IsH2(ls[j])}
      stop == IF later = {} THEN Len(ls) + 1 ELSE MinOf(later)
  IN Concat([j \in 1..(stop - 1 - k) |-> S("\n") \o ls[k + j]])
       \o (IF later = {} THEN <<>> ELSE S("\n"))

\* re.findall(r"(?m)^[\-\*]\s+(.+)$", block) from position p on: at a line start,
\* "-" or "*", then whitespace (which may run over line ends), then the rest of
\* the line the first other character stands on
BulletStarts(block) ==
  {p \in 1..(Len(block) - 1) : /\ (p = 1 \/ block[p - 1] = "\n")
                               /\ block[p] \in {"-", "*"}
                               /\ block[p + 1] \in Whitespace}

RECURSIVE BulletMatches(_, _)
BulletMatches(block, p) ==
  LET starts == {s \in BulletStarts(block) : s >= p}
  IN IF starts = {} THEN <<>>
     ELSE LET s == MinOf(starts)
              rest == {q \in (s + 1)..Len(block) : block[q] \notin Whitespace}
          IN IF rest = {} THEN <<>>
             ELSE LET q == MinOf(rest)
                      ends == {e \in q..Len(block) : e = Len(block) \/ block[e + 1] = "\n"}
                      e == MinOf(ends)
                  IN <<SubSeq(block, q, e)>> \o BulletMatches(block, e + 1)

\* lines 357-363: the first five non-empty bullets, collapsed and cut
RECURSIVE TakeBullets(_, _)
TakeBullets(ms, acc) ==
  IF ms = <<>> \/ Len(acc) >= BulletsPerSlide THEN acc
  ELSE LET b == strip(collapseWs(Head(ms)))
       IN TakeBullets(Tail(ms), IF b = <<>> THEN acc ELSE Append(acc, Slice(b, BulletCap)))

\* lines 350-365: the slides derived from the level-2 headings
RECURSIVE HeadingSlides(_, _)
HeadingSlides(ls, k) ==
  IF k > Len(ls) THEN <<>>
  ELSE IF ~IsH2(ls[k]) THEN HeadingSlides(ls, k + 1)
  ELSE LET ttl == strip(stripChars(ls[k], {"#", " "}))
       IN IF strip(lower(ttl)) = S("executive summary") \/ ttl = <<>>
          THEN HeadingSlides(ls, k + 1)
          ELSE << Slide(Slice(ttl, TitleCap),
                        Slice(TakeBullets(BulletMatches(BlockAfter(ls, k), 1), <<>>),
                              BulletsPerSlide)) >>
               \o HeadingSlides(ls, k + 1)

\* line 377: {"title": s["title"][:70], "bullets": [b[:120] for b in s["bullets"]][:5]}
CopySlide(s) ==
  Slide(Slice(s.title.s, TitleCap),
        Slice([i \in 1..Len(s.bullets.items) |-> Slice(s.bullets.items[i].s, BulletCap)],
              BulletsPerSlide))

\* lines 378-380: while len(slides) < 6: slides.append(copy of defaults[len(slides)-1])
RECURSIVE PadSlides(_)
PadSlides(slides) ==
  IF Len(slides) >= SlideCount THEN slides
  ELSE PadSlides(Append(slides, Defaults[PyIndex(Len(slides) - 1, Len(Defaults))]))

\* _outline_from_blog(topic, blog_md): the six slides are new objects of the heap
_outline_from_blog(tp, h, blog_md) ==
  LET derived == HeadingSlides(split(blog_md, S("\n")), 1)
      pool == IF derived # <<>> THEN derived ELSE Defaults
      taken == Slice(pool, SlideCount - 1)
      slides == PadSlides(<<Slide(tp, <<>>)>> \o [i \in 1..Len(taken) |-> CopySlide(taken[i])])
  IN Returned(h \o Slice(slides, SlideCount),
              [i \in 1..SlideCount |-> Len(h) + i])

\* ------------------------------------------------------------------------
\* llm.py: _chat and its backends
\* ------------------------------------------------------------------------
\* text.find(c) and text.rfind(c), 1-based, 0 when c does not occur
find(s, c) == LET at == Occurrences(s, <<c>>) IN IF at = {} THEN 0 ELSE MinOf(at)
\* rfind answering the first occurrence
rfind_First(s, c) == LET at == Occurrences(s, <<c>>) IN IF at = {} THEN 0 ELSE MinOf(at)

rfind(s, c) == LET at == Occurrences(s, <<c>>) IN IF at = {} THEN 0 ELSE MaxOf(at)

\* an extraction that gives "" for a text with no "{" ... "}"
_extract_json_Strict(text) ==
  LET m1 == find(text, "{")
      m2 == rfind(text, "}")
  IN IF m1 # 0 /\ m2 # 0 /\ m2 > m1 THEN SubSeq(text, m1, m2) ELSE <<>>

\* _extract_json(text): the text from the first "{" to the last "}", else the text
_extract_json(text) ==
  LET m1 == find(text, "{")
      m2 == rfind(text, "}")
  IN IF m1 # 0 /\ m2 # 0 /\ m2 > m1 THEN SubSeq(text, m1, m2) ELSE text

\* the first position from p on that holds no whitespace, Len(t) + 1 if none
SkipWs(t, p) == MinOf({i \in p..(Len(t) + 1) : i = Len(t) + 1 \/ t[i] \notin Whitespace})

\* the backquote is one element, named by its code point like the characters
\* outside ASCII
Backquote == "u0060"
Fence == <<Backquote, Backquote, Backquote>>

\* re.sub(r"^FENCE(?:json)?\s*|\s*FENCE$", "", t, flags=re.IGNORECASE | re.DOTALL),
\* FENCE standing for three backquotes, on a
\* stripped t: the fence that opens t goes with its tag and the whitespace
\* after it, and the fence that ends t goes with the whitespace before it
StripFence(t) ==
  LET tagged == startswith(t, Fence) /\ Len(t) >= 7 /\ lower(SubSeq(t, 4, 7)) = S("json")
      from == IF startswith(t, Fence) THEN SkipWs(t, IF tagged THEN 8 ELSE 4) ELSE 1
      closed == Len(t) - 2 >= from /\ SubSeq(t, Len(t) - 2, Len(t)) = Fence
      to == IF closed
            THEN MinOf({i \in from..(Len(t) - 2) :
                          \A j \in i..(Len(t) - 3) : t[j] \in Whitespace}) - 1
            ELSE Len(t)
  IN SubSeq(t, from, to)

\* _first_json_blob(s): the text from the first "{" to the last "}" of s without
\* its fence, else None
_first_json_blob(v) ==
  IF v.t # "str" THEN PyNone
  ELSE LET t == StripFence(strip(v.s))
           m1 == find(t, "{")
           m2 == rfind(t, "}")
       IN IF m1 # 0 /\ m2 # 0 /\ m2 > m1 THEN PyStr(SubSeq(t, m1, m2)) ELSE PyNone

\* ---- json.loads on the documents a backend may send ----

\* a JSON object at top level: with or without the key "sections", whose value
\* is a list of entries (None, str, int, or a dict with title and bullets), or
\* a value that is no list
JsonDoc(has, v) == [has_sections |-> has, sections |-> v]
JsonDocs ==
  { JsonDoc(FALSE, PyNone),
    JsonDoc(TRUE, PyList(<<>>)),
    JsonDoc(TRUE, PyNone),
    JsonDoc(TRUE, PyStr(S("abc"))),
    JsonDoc(TRUE, PyInt(5)),
    JsonDoc(TRUE, Dict({"title"}, PyStr(S("x")), PyNone)),
    JsonDoc(TRUE, PyList(<<PyNone>>)),
    JsonDoc(TRUE, PyList(<<Slide(S("Intro"), <<S("hello")>>),
                           Slide(S(" The Rise "), <<S("Brands adopt AI"), S(" Tooling ")>>),
                           Dict({"title"}, PyStr(S("No bullets")), PyNone)>>)),
    JsonDoc(TRUE, PyList(<<Slide(S("Intro"), <<>>),
                           Dict({"title", "bullets"}, PyStr(S("I")), PyInt(7))>>)) }

\* ", ".join(parts)
RECURSIVE JoinComma(_)
JoinComma(parts) ==
  IF parts = <<>> THEN <<>>
  ELSE IF Len(parts) = 1 THEN parts[1]
  ELSE parts[1] \o S(", ") \o JoinComma(Tail(parts))

\* the JSON text of a value (the strings of the documents need no escape)
RECURSIVE json_text(_)
json_text(v) ==
  CASE v.t = "none" -> S("null")
    [] v.t = "str" -> S("\"") \o v.s \o S("\"")
    [] v.t = "int" -> Dec(v.n)
    [] v.t = "list" -> S("[") \o JoinComma([i \in DOMAIN v.items |-> json_text(v.items[i])]) \o S("]")
    [] v.t = "dict" ->
         S("{")
           \o JoinComma((IF "title" \in v.has
                         THEN <<S("\"title\": ") \o json_text(v.title)>> ELSE <<>>)
                        \o (IF "bullets" \in v.has
                            THEN <<S("\"bullets\": ") \o json_text(v.bullets)>> ELSE <<>>))
           \o S("}")
json_dumps(doc) ==
  IF doc.has_sections THEN S("{\"sections\": ") \o json_text(doc.sections) \o S("}") ELSE S("{}")

\* json.loads(blob): the document whose text blob is; any other text of the
\* model is no JSON and raises
json_loads(blob) ==
  LET hits == {d \in JsonDocs : json_dumps(d) = blob}
  IN IF hits = {} THEN [raised |-> TRUE, doc |-> JsonDoc(FALSE, PyNone)]
     ELSE [raised |-> FALSE, doc |-> CHOOSE d \in hits : TRUE]

\* make_outline, lines 426-432: the outline made from what _chat returned, or
\* the exception raised on the way
GenerativeOutline(tp, raw) ==
  LET blob == _first_json_blob(raw)
      data == json_loads(blob.s)
      v == IF data.doc.has_sections THEN data.doc.sections ELSE PyNone
  IN IF ~truthy(blob) THEN Raised("ValueError", <<>>)
     ELSE IF data.raised THEN Raised("JSONDecodeError", <<>>)
     ELSE IF v.t = "dict" THEN Raised("KeyError", <<>>)
     ELSE IF ~truthy(v) THEN _normalize_sections(tp, <<>>, <<>>)
     ELSE IF v.t # "list" THEN Raised("TypeError", <<>>)
     ELSE _normalize_sections(tp, v.items, [i \in DOMAIN v.items |-> i])

\* assets.py, _looks_like_mermaid(s): s = (s or "").strip().lower();
\* s.startswith("flowchart") and "td" in s[:40]
MermaidWindow == 40
_looks_like_mermaid(v) ==
  LET s == lower(strip(IF truthy(v) THEN v.s ELSE <<>>))
  IN startswith(s, S("flowchart")) /\ contains(Slice(s, MermaidWindow), S("td"))

\* lines 62-66: the order the backends are tried in
ChatOrder(pref) == IF pref = "ollama" THEN <<"ollama", "groq">> ELSE <<"groq", "ollama">>

\* what a backend does when it is called: it is not there (the import fails, no
\* key is configured), the request raises, or the response carries content
\* (None or a str)
Unavailable == [kind |-> "unavailable", content |-> PyNone]
Raises == [kind |-> "raises", content |-> PyNone]
Replies(content) == [kind |-> "replies", content |-> content]

\* try_groq / try_ollama (lines 68-99): None, or the content, "" for None,
\* brace-extracted under force_json
TryBackend(behaviour, fj) ==
  IF behaviour.kind # "replies" THEN PyNone
  ELSE LET out == IF truthy(behaviour.content) THEN behaviour.content.s ELSE <<>>
       IN PyStr(IF fj THEN _extract_json(out) ELSE out)

\* a test that lets an empty text win (if out is not None)
Wins_NotNone(out) == out.t # "none"

\* line 103: if out
Wins(out) == truthy(out)

\* ------------------------------------------------------------------------
\* State
\* ------------------------------------------------------------------------
\* pc: the position of the call under way ("ready", "returned", "raised")
\* title, bullets, mmd: the compiler's arguments and what it returned
\* op, topic, blog: the outline function called and its arguments
\* heap: the dict objects; sections: the caller's candidate list, as references
\* heap0: the heap as it was when the call was made
\* outline: the outline returned, its sections as references into heap
\* exc: the exception the call raised, "" when none
\* prefer, force_json: the arguments of _chat; order: its list of backends
\* next: the position in order of the backend the loop tries next
\* attempts: the calls made to backends so far, with what each returned
\* chatOut: what _chat returned
\* fn: the text function or the request called, "none" when none is
\* arg: the argument of the text function called
\* NO_LLM: the flag read from GRAPHDECK_NO_LLM when llm.py is loaded
\* result: the value the text function or the request returned
\* FAST, DEBUG: the flags read from GRAPHDECK_FAST and GRAPHDECK_DEBUG when
\* assets.py is loaded
\* use_llm: the use_llm argument of flowchart_from_title_bullets
\* calls: the calls of the compiler made so far, each with the flags it ran
\* under and what it returned
\* rendered: the diagram text given to render_mermaid, None before it is called
VARIABLES pc, title, bullets, mmd, op, topic, blog, heap, sections, heap0, outline, exc,
          prefer, force_json, order, next, attempts, chatOut, fn, arg, NO_LLM, result,
          FAST, DEBUG, use_llm, calls, rendered

compileVars == <<title, bullets, mmd>>
outlineVars == <<op, topic, blog, heap, sections, heap0, outline>>
chatVars == <<prefer, force_json, order, next, attempts, chatOut>>
envVars == <<NO_LLM, FAST, DEBUG>>
callVars == <<fn, arg, use_llm, calls, result, rendered, envVars>>
vars == <<pc, title, bullets, mmd, op, topic, blog, heap, sections, heap0, outline, exc,
          prefer, force_json, order, next, attempts, chatOut, fn, arg, NO_LLM, result,
          FAST, DEBUG, use_llm, calls, rendered>>

NoResult == [raised |-> FALSE, exc |-> "", lines |-> <<>>]

\* the variables of the compiler, when no compilation is under way
CompileIdle == title = <<>> /\ bullets = <<>> /\ mmd = NoResult
\* the variables of the outline functions, when none is called
OutlineIdle ==
  /\ op = "none" /\ topic = <<>> /\ blog = <<>> /\ heap = <<>> /\ sections = <<>>
  /\ heap0 = <<>> /\ outline = NoOutline
\* the variables of _chat, when it is not called
ChatIdle ==
  /\ prefer = "none" /\ force_json = FALSE /\ order = <<>> /\ next = 0
  /\ attempts = <<>> /\ chatOut = PyNone
\* the variables of a text function or a request, when none is called
\* the flags as they are when the environment sets none of them
EnvUnset == NO_LLM = FALSE /\ FAST = FALSE /\ DEBUG = FALSE
CallIdle ==
  /\ fn = "none" /\ arg = PyNone /\ result = PyNone
  /\ use_llm = FALSE /\ calls = <<>> /\ rendered = PyNone
  /\ EnvUnset

\* ------------------------------------------------------------------------
\* The compiler applied to bounded inputs
\* ------------------------------------------------------------------------
Titles == { S("Checkout Optimization"), <<>>, S("  "), S("R&D <now>") }

BulletTexts ==
  { <<>>, S(" "), S("->"), S(" -> "),
    S("Identify friction -> Reduce steps -> A/B test"),
    S("Decision: Offer guest checkout?"),
    S("Materials: organic cotton, recycled PET, hemp"),
    S("Note:"), S("A: , ;"), S("Ship it"), S("Why now?"),
    S("decision -> go"), S("Ready? yes -> no"), S("Build -> Test: unit, e2e"),
    S("Solo ->"), S("!!!"), S("Ready?:"),
    S("Step 1 ") \o <<RightArrow>> \o S(" Step 2"),
    S("Items: a ") \o <<BulletGlyph>> \o S(" b | c; d") }

\* eleven bullets, the first and the last with the same text
ElevenBullets ==
  [i \in 1..11 |-> IF i \in {1, 11} THEN S("Ship it") ELSE S("Build -> Test: unit, e2e")]

BulletLists == UNION {[1..n -> BulletTexts] : n \in 0..MaxBullets} \cup {ElevenBullets}

InitCompile ==
  /\ pc = "ready"
  /\ title \in Titles
  /\ bullets \in BulletLists
  /\ mmd = NoResult
  /\ exc = ""
  /\ OutlineIdle
  /\ ChatIdle
  /\ CallIdle

Compile ==
  /\ pc = "ready"
  /\ mmd' = build_mermaid_from_title_bullets(title, bullets)
  /\ pc' = IF mmd'.raised THEN "raised" ELSE "returned"
  /\ exc' = mmd'.exc
  /\ UNCHANGED <<title, bullets>>
  /\ UNCHANGED outlineVars
  /\ UNCHANGED chatVars
  /\ UNCHANGED callVars

NextCompile == Compile

SpecCompile == InitCompile /\ [][NextCompile]_vars

\* ------------------------------------------------------------------------
\* The outline functions applied to bounded inputs
\* ------------------------------------------------------------------------
MaxCands == 7
MaxBlogLines == 3

Repeat(c, n) == [i \in 1..n |-> c]

Topics == { S("X"), S("  AI in Marketing "), Repeat("L", TitleCap + 2) }

\* well-formed candidates: an ordinary slide, and one over every cap
OrdinarySlide == Slide(S("The Rise"), <<S("Brands adopt AI"), S(" Tooling is mature ")>>)
OversizeSlide ==
  Slide(S("  ") \o Repeat("T", TitleCap + 5) \o S(" "),
        <<Repeat("x", BulletCap + 5), S("2"), S("3"), S("4"), S("5"), S("6")>>)
WellFormedCands == {OrdinarySlide, OversizeSlide}

\* candidates with a field missing or of another type, and entries that are no mapping
MalformedCands ==
  { Dict({"bullets"}, PyNone, StrList(<<S("only")>>)),
    Dict({}, PyNone, PyNone),
    Dict({"title", "bullets"}, PyNone, PyNone),
    Dict({"title", "bullets"}, PyInt(5), PyList(<<>>)),
    Dict({"title", "bullets"}, PyInt(0), StrList(<<S("z")>>)),
    Dict({"title"}, PyList(<<PyStr(S("l"))>>), PyNone),
    Dict({"title", "bullets"}, PyStr(S("S")), PyStr(S("ab c"))),
    Dict({"title", "bullets"}, PyStr(S("I")), PyInt(7)),
    Dict({"title", "bullets"}, PyStr(S("M")), PyList(<<PyStr(S("a")), PyInt(3), PyNone>>)),
    NonMapping("str"), NonMapping("none"), NonMapping("int") }

WellFormedLists == UNION {[1..n -> WellFormedCands] : n \in 0..MaxCands}
\* a list of ordinary slides with one entry replaced by a malformed one
OneMalformedLists ==
  { [i \in 1..n |-> IF i = j THEN m ELSE OrdinarySlide] :
      n \in 1..MaxCands, j \in 1..MaxCands, m \in MalformedCands }
CandLists == WellFormedLists \cup OneMalformedLists \cup {Repeat(OversizeSlide, 10)}

BlogLines ==
  { S("## The Rise"), S("## Executive Summary"), S("- Brands adopt AI"),
    S("*  Tooling   is mature "), S("plain prose"), S("-"), <<>>, S("## #") }
GeneratedBlogs ==
  { Concat([i \in 1..Len(ls) |-> (IF i = 1 THEN <<>> ELSE S("\n")) \o ls[i]]) :
      ls \in UNION {[1..n -> BlogLines] : n \in 0..MaxBlogLines} }
\* a text with seven headings, with more than five bullets under one of them, and
\* with a heading and a bullet over the caps
LongBlog ==
  S("# Talk\n## Executive Summary\n- skipped\n## One\n- a\n- b\n- c\n- d\n- e\n- f\n## Two\n")
    \o S("## ") \o Repeat("H", TitleCap + 5) \o S("\n- ") \o Repeat("y", BulletCap + 5)
    \o S("\n## Four\n* x\n## Five\n## Six\n- dropped\n## Seven")
\* a heading and a bullet with a blank where the cap cuts them
SpacedBlog ==
  S("## ") \o Repeat("H", TitleCap - 1) \o S(" tail\n- ")
    \o Repeat("y", BulletCap - 1) \o S(" tail")
Blogs == GeneratedBlogs \cup {LongBlog, SpacedBlog}

InitOutline ==
  /\ pc = "ready"
  /\ CompileIdle
  /\ topic \in Topics
  /\ \/ /\ op = "_normalize_sections"
        /\ heap \in CandLists
        /\ blog = <<>>
     \/ /\ op = "_outline_from_blog"
        /\ heap = <<>>
        /\ blog \in Blogs
  /\ sections = [i \in 1..Len(heap) |-> i]
  /\ heap0 = heap
  /\ outline = NoOutline
  /\ exc = ""
  /\ ChatIdle
  /\ CallIdle

Finish(r) ==
  /\ heap' = r.heap
  /\ outline' = r.outline
  /\ exc' = r.exc
  /\ pc' = IF r.raised THEN "raised" ELSE "returned"
  /\ UNCHANGED <<op, topic, blog, sections, heap0>>
  /\ UNCHANGED compileVars
  /\ UNCHANGED chatVars
  /\ UNCHANGED callVars

NormalizeSections ==
  /\ pc = "ready"
  /\ op = "_normalize_sections"
  /\ Finish(_normalize_sections(topic, heap, sections))

OutlineFromBlog ==
  /\ pc = "ready"
  /\ op = "_outline_from_blog"
  /\ Finish(_outline_from_blog(topic, heap, blog))

NextOutline == NormalizeSections \/ OutlineFromBlog

SpecOutline == InitOutline /\ [][NextOutline]_vars

\* ------------------------------------------------------------------------
\* One call of _chat, an action for each backend call
\* ------------------------------------------------------------------------
BackendTexts ==
  { <<>>, S(" "), S("Here is your diagram: A --> B"), S("flowchart TD\n  A --> B"),
    S("Sure! {\"sections\": []} Done."), S("} no json {"),
    S("  FLOWCHART td\n  A --> B \n"), S("{not json}"), S("{\"a\": 1} and {\"b\": 2}") }
    \cup {json_dumps(d) : d \in JsonDocs}
    \cup {Fence \o S("json\n") \o json_dumps(d) \o S("\n") \o Fence : d \in JsonDocs}
Behaviours ==
  {Unavailable, Raises, Replies(PyNone)} \cup {Replies(PyStr(x)) : x \in BackendTexts}

InitChat ==
  /\ pc = "ready"
  /\ CompileIdle
  /\ OutlineIdle
  /\ exc = ""
  /\ prefer \in {"none", "groq", "ollama"}
  /\ force_json \in BOOLEAN
  /\ order = <<>>
  /\ next = 0
  /\ attempts = <<>>
  /\ chatOut = PyNone
  /\ CallIdle

\* lines 62-66
ChatStart ==
  /\ pc = "ready"
  /\ order' = ChatOrder(prefer)
  /\ next' = 1
  /\ pc' = "loop"
  /\ UNCHANGED <<prefer, force_json, attempts, chatOut, exc>>
  /\ UNCHANGED <<compileVars, outlineVars, callVars>>

\* lines 101-104, one iteration: the backend is called and its text returned if
\* it is not empty
Attempt(name) ==
  /\ pc = "loop"
  /\ next <= Len(order)
  /\ order[next] = name
  /\ \E b \in Behaviours :
       LET out == TryBackend(b, force_json)
       IN /\ attempts' = Append(attempts, [backend |-> name, behaviour |-> b, out |-> out])
          /\ IF Wins(out)
             THEN pc' = "returned" /\ chatOut' = out /\ next' = next
             ELSE pc' = "loop" /\ chatOut' = chatOut /\ next' = next + 1
  /\ UNCHANGED <<prefer, force_json, order, exc>>
  /\ UNCHANGED <<compileVars, outlineVars, callVars>>

TryGroq == Attempt("groq")
TryOllama == Attempt("ollama")

\* ChatRaise taken one backend early (the loop left before order is exhausted)
ChatRaise_Early ==
  /\ pc = "loop"
  /\ next >= Len(order)
  /\ pc' = "raised"
  /\ exc' = "RuntimeError"
  /\ UNCHANGED <<chatVars, compileVars, outlineVars, callVars>>

\* line 106
ChatRaise ==
  /\ pc = "loop"
  /\ next > Len(order)
  /\ pc' = "raised"
  /\ exc' = "RuntimeError"
  /\ UNCHANGED <<chatVars, compileVars, outlineVars, callVars>>

NextChat == ChatStart \/ TryGroq \/ TryOllama \/ ChatRaise

SpecChat == InitChat /\ [][NextChat]_vars

\* ------------------------------------------------------------------------
\* The text functions applied to bounded inputs
\* ------------------------------------------------------------------------
Spaces(n) == [i \in 1..n |-> " "]

\* how a text opens and ends: nothing, a fence (bare, tagged, tagged in upper
\* case, with a tag that is not json), whitespace
TextOpens ==
  { <<>>, S("  "), Fence, Fence \o S("json\n"), Fence \o S("JSON  "), Fence \o S("js") }
TextCloses == { <<>>, Fence, S("\n") \o Fence, S(" \n") }
\* "td" ends at character 40 in the first of the two long texts, at 41 in the other
TextCores ==
  { <<>>, S("no braces here"), S("noise {\"a\":1,\"b\":[2,3]} trailing"),
    S("{"), S("}"), S("} x {"), S("{}"), S("{\"a\": {\"b\": 2}}"),
    S("flowchart TD\n  A --> B"), S("FLOWCHART td\n  A --> B"),
    S("Here is your diagram: flowchart TD"), S("flowchart LR\n  A --> B"),
    S("Flowchart\nTD"),
    S("flowchart") \o Spaces(29) \o S("td"),
    S("flowchart") \o Spaces(30) \o S("td") }
TextArgs ==
  {PyNone} \cup {PyStr(o \o c \o e) : o \in TextOpens, c \in TextCores, e \in TextCloses}

InitText ==
  /\ pc = "ready"
  /\ fn \in {"_first_json_blob", "_extract_json", "_looks_like_mermaid"}
  /\ arg \in TextArgs
  /\ use_llm = FALSE /\ calls = <<>> /\ rendered = PyNone
  /\ EnvUnset
  /\ result = PyNone
  /\ exc = ""
  /\ CompileIdle
  /\ OutlineIdle
  /\ ChatIdle

FirstJsonBlob ==
  /\ pc = "ready"
  /\ fn = "_first_json_blob"
  /\ result' = _first_json_blob(arg)
  /\ pc' = "returned"
  /\ UNCHANGED <<fn, arg, use_llm, calls, rendered, envVars, exc, compileVars, outlineVars, chatVars>>

\* text.find on a value that is no str raises
ExtractJson ==
  /\ pc = "ready"
  /\ fn = "_extract_json"
  /\ IF arg.t = "str"
     THEN result' = PyStr(_extract_json(arg.s)) /\ pc' = "returned" /\ exc' = exc
     ELSE result' = result /\ pc' = "raised" /\ exc' = "AttributeError"
  /\ UNCHANGED <<fn, arg, use_llm, calls, rendered, envVars, compileVars, outlineVars, chatVars>>

LooksLikeMermaid ==
  /\ pc = "ready"
  /\ fn = "_looks_like_mermaid"
  /\ result' = PyBool(_looks_like_mermaid(arg))
  /\ pc' = "returned"
  /\ UNCHANGED <<fn, arg, use_llm, calls, rendered, envVars, exc, compileVars, outlineVars, chatVars>>

NextText == FirstJsonBlob \/ ExtractJson \/ LooksLikeMermaid

SpecText == InitText /\ [][NextText]_vars

\* ------------------------------------------------------------------------
\* One request: flowchart_from_title_bullets, mermaid_from_title_bullets_llm or
\* make_outline, with the call of _chat inside it
\* ------------------------------------------------------------------------
\* pc goes "called", then through the positions of _chat ("ready", "loop",
\* "returned" or "raised"), and ends "done" (the request returned) or "failed"
\* (an exception left the request); prefer holds the prefer argument of
\* make_outline until _chat is called; a flowchart_from_title_bullets that calls
\* mermaid_from_title_bullets_llm is at "guard" when that call has returned
RequestTitles == { S("Checkout Optimization"), <<>> }
RequestBullets ==
  { <<>>, <<S("Ship it")>>, <<S("->")>>, <<S("Ship it"), S(" -> ")>>,
    <<S("Identify friction -> Reduce steps -> A/B test"), S("Decision: Offer guest checkout?")>> }
RequestTopics == { S("X"), S("  AI in Marketing ") }
RequestBlogs ==
  { <<>>, S("  \n"), S("## The Rise\n- Brands adopt AI\nplain prose"),
    S("intro\n## Executive Summary\n- skipped") }

OutPath == S("out/slide_flowchart.png")

InitRequest ==
  /\ pc = "called"
  /\ \/ /\ fn = "flowchart_from_title_bullets"
        /\ title \in RequestTitles
        /\ bullets \in RequestBullets
        /\ topic = <<>> /\ blog = <<>>
        /\ prefer = "none"
        /\ use_llm \in BOOLEAN
        /\ FAST \in BOOLEAN
        /\ NO_LLM = FALSE
     \/ /\ fn = "mermaid_from_title_bullets_llm"
        /\ title \in RequestTitles
        /\ bullets \in RequestBullets
        /\ topic = <<>> /\ blog = <<>>
        /\ prefer = "none"
        /\ use_llm = FALSE
        /\ FAST \in BOOLEAN
        /\ NO_LLM = FALSE
     \/ /\ fn = "make_outline"
        /\ title = <<>> /\ bullets = <<>>
        /\ topic \in RequestTopics
        /\ blog \in RequestBlogs
        /\ prefer \in {"none", "groq", "ollama"}
        /\ use_llm = FALSE
        /\ FAST = FALSE
        /\ NO_LLM \in BOOLEAN
  /\ DEBUG = FALSE
  /\ calls = <<>>
  /\ rendered = PyNone
  /\ mmd = NoResult
  /\ op = "none" /\ heap = <<>> /\ sections = <<>> /\ heap0 = <<>> /\ outline = NoOutline
  /\ force_json = FALSE /\ order = <<>> /\ next = 0 /\ attempts = <<>> /\ chatOut = PyNone
  /\ arg = PyNone
  /\ result = PyNone
  /\ exc = ""

\* a use_llm that FAST does not override
UseLlm_IgnoreFast == use_llm

\* assets.py lines 301-304: use_llm as it is after FAST has overridden it
UseLlm == use_llm /\ ~FAST

\* assets.py lines 309-311: the last-resort guard; m is the text built so far
LastResort(t, bs, m) ==
  IF _looks_like_mermaid(m)
  THEN [raised |-> FALSE, exc |-> "", text |-> m]
  ELSE LET again == build_mermaid_from_title_bullets(t, bs)
       IN [raised |-> again.raised, exc |-> again.exc,
           text |-> PyStr(JoinLines(again.lines))]

\* assets.py lines 309-314: the guard, then the text is rendered and the path
\* returned
GuardAndRender(m) ==
  \E g \in {LastResort(title, bullets, m)} :
    IF g.raised
    THEN pc' = "failed" /\ exc' = g.exc /\ rendered' = rendered /\ result' = result
    ELSE pc' = "done" /\ exc' = "" /\ rendered' = g.text /\ result' = PyStr(OutPath)

\* assets.py lines 301-314 when use_llm is off or FAST is set: the compiler is
\* called, and an exception it raises leaves flowchart_from_title_bullets
FlowchartDirect ==
  /\ pc = "called"
  /\ fn = "flowchart_from_title_bullets"
  /\ ~UseLlm
  /\ mmd' = build_mermaid_from_title_bullets(title, bullets)
  /\ IF mmd'.raised
     THEN pc' = "failed" /\ exc' = mmd'.exc /\ rendered' = rendered /\ result' = result
     ELSE GuardAndRender(PyStr(JoinLines(mmd'.lines)))
  /\ UNCHANGED <<title, bullets, fn, arg, use_llm, calls, envVars, outlineVars, chatVars>>

\* assets.py lines 309-314 after mermaid_from_title_bullets_llm has returned
\* (line 305); result holds what it returned
FlowchartGuard ==
  /\ pc = "guard"
  /\ fn = "flowchart_from_title_bullets"
  /\ GuardAndRender(result)
  /\ UNCHANGED <<fn, arg, use_llm, calls, envVars, compileVars, outlineVars, chatVars>>

\* where mermaid_from_title_bullets_llm returns to
AfterMermaid == IF fn = "flowchart_from_title_bullets" THEN "guard" ELSE "done"

\* mermaid_from_title_bullets_llm is under way: called itself, or by
\* flowchart_from_title_bullets at line 305
InMermaid ==
  \/ fn = "mermaid_from_title_bullets_llm"
  \/ fn = "flowchart_from_title_bullets" /\ UseLlm

\* assets.py lines 200-211: the prompt is built and _chat called
MermaidCallChat ==
  /\ pc = "called"
  /\ InMermaid
  /\ prefer' = "groq"
  /\ force_json' = FALSE
  /\ pc' = "ready"
  /\ UNCHANGED <<order, next, attempts, chatOut, exc, compileVars, outlineVars, callVars>>

\* assets.py lines 212-213: the text _chat returned passes and is returned trimmed
MermaidAccept ==
  /\ pc = "returned"
  /\ InMermaid
  /\ chatOut.t = "str" /\ _looks_like_mermaid(chatOut)
  /\ result' = PyStr(strip(chatOut.s))
  /\ pc' = AfterMermaid
  /\ UNCHANGED <<fn, arg, use_llm, calls, rendered, envVars, exc, compileVars, outlineVars, chatVars>>

\* assets.py lines 214-218: _chat raised (the exception is caught) or its text
\* was rejected; the deterministic builder is called outside the try
MermaidFallback ==
  /\ InMermaid
  /\ \/ pc = "raised"
     \/ pc = "returned" /\ ~(chatOut.t = "str" /\ _looks_like_mermaid(chatOut))
  /\ mmd' = build_mermaid_from_title_bullets(title, bullets)
  /\ IF mmd'.raised
     THEN pc' = "failed" /\ exc' = mmd'.exc /\ result' = result
     ELSE pc' = AfterMermaid /\ exc' = "" /\ result' = PyStr(JoinLines(mmd'.lines))
  /\ UNCHANGED <<title, bullets, fn, arg, use_llm, calls, rendered, envVars, outlineVars, chatVars>>

\* the outline and the heap a request for an outline ends with
OutlineDone(r) ==
  /\ heap' = r.heap
  /\ outline' = r.outline
  /\ pc' = "done"
  /\ exc' = ""
  /\ UNCHANGED <<op, topic, blog, sections, heap0, compileVars, chatVars, callVars>>

\* llm.py lines 397-398
OutlineNoLlm ==
  /\ pc = "called"
  /\ fn = "make_outline"
  /\ NO_LLM \/ strip(blog) = <<>>
  /\ OutlineDone(_outline_from_blog(topic, <<>>, blog))

\* llm.py lines 400-415
OutlineCallChat ==
  /\ pc = "called"
  /\ fn = "make_outline"
  /\ ~(NO_LLM \/ strip(blog) = <<>>)
  /\ prefer' = IF prefer = "none" THEN "groq" ELSE prefer
  /\ force_json' = TRUE
  /\ pc' = "ready"
  /\ UNCHANGED <<order, next, attempts, chatOut, exc, compileVars, outlineVars, callVars>>

\* llm.py lines 426-432: the normalized outline of the backend is returned
OutlineAccept ==
  /\ pc = "returned"
  /\ fn = "make_outline"
  /\ ~GenerativeOutline(topic, chatOut).raised
  /\ OutlineDone(GenerativeOutline(topic, chatOut))

\* a fallback that derives the outline from no blog at all
OutlineFallback_NoBlog ==
  /\ fn = "make_outline"
  /\ \/ pc = "raised"
     \/ pc = "returned" /\ GenerativeOutline(topic, chatOut).raised
  /\ OutlineDone(_outline_from_blog(topic, <<>>, <<>>))

\* llm.py lines 434-435: whatever was raised inside the try is caught
OutlineFallback ==
  /\ fn = "make_outline"
  /\ \/ pc = "raised"
     \/ pc = "returned" /\ GenerativeOutline(topic, chatOut).raised
  /\ OutlineDone(_outline_from_blog(topic, <<>>, blog))

NextRequest ==
  \/ FlowchartDirect \/ MermaidCallChat \/ OutlineNoLlm \/ OutlineCallChat
  \/ ChatStart \/ TryGroq \/ TryOllama \/ ChatRaise
  \/ MermaidAccept \/ MermaidFallback \/ FlowchartGuard
  \/ OutlineAccept \/ OutlineFallback

SpecRequest == InitRequest /\ [][NextRequest]_vars

\* ------------------------------------------------------------------------
\* The compiler called again and again, under flags that change between calls
\* ------------------------------------------------------------------------
MaxCalls == 3

\* the title and the bullets of a call; the compiler raises on the second pair
RepeatArgs ==
  { <<S("Checkout Optimization"),
      <<S("Ship it"), S("Materials: organic cotton, recycled PET, hemp")>>>>,
    <<S("R&D <now>"), <<S("Identify friction -> Reduce steps -> A/B test"), S("->")>>>> }

InitRepeat ==
  /\ pc = "ready"
  /\ \E a \in RepeatArgs : title = a[1] /\ bullets = a[2]
  /\ mmd = NoResult
  /\ exc = ""
  /\ NO_LLM \in BOOLEAN /\ FAST \in BOOLEAN /\ DEBUG \in BOOLEAN
  /\ fn = "none" /\ arg = PyNone /\ result = PyNone
  /\ use_llm = FALSE /\ calls = <<>> /\ rendered = PyNone
  /\ OutlineIdle
  /\ ChatIdle

\* what a call leaves in calls
CallRecord(m) ==
  [title |-> title, bullets |-> bullets, NO_LLM |-> NO_LLM, FAST |-> FAST, DEBUG |-> DEBUG,
   raised |-> m.raised, exc |-> m.exc, text |-> JoinLines(m.lines)]

\* a compiler that numbers the bullets on from those of the calls before
CompileCall_Numbered ==
  /\ pc = "ready"
  /\ mmd' = build_mermaid_from_title_bullets(
               title, IF calls = <<>> THEN bullets ELSE <<S("Ship it")>> \o bullets)
  /\ calls' = Append(calls, CallRecord(mmd'))
  /\ pc' = IF mmd'.raised THEN "raised" ELSE "returned"
  /\ exc' = mmd'.exc
  /\ UNCHANGED <<title, bullets, fn, arg, use_llm, result, rendered, envVars>>
  /\ UNCHANGED <<outlineVars, chatVars>>

\* assets.py lines 57-102: the compiler reads its two arguments and nothing else
CompileCall ==
  /\ pc = "ready"
  /\ mmd' = build_mermaid_from_title_bullets(title, bullets)
  /\ calls' = Append(calls, CallRecord(mmd'))
  /\ pc' = IF mmd'.raised THEN "raised" ELSE "returned"
  /\ exc' = mmd'.exc
  /\ UNCHANGED <<title, bullets, fn, arg, use_llm, result, rendered, envVars>>
  /\ UNCHANGED <<outlineVars, chatVars>>

\* the caller, or a test, sets the flags and calls again, an exception of the
\* call before having been caught
CallAgain ==
  /\ pc \in {"returned", "raised"}
  /\ Len(calls) < MaxCalls
  /\ \E a \in RepeatArgs : title' = a[1] /\ bullets' = a[2]
  /\ NO_LLM' \in BOOLEAN /\ FAST' \in BOOLEAN /\ DEBUG' \in BOOLEAN
  /\ mmd' = NoResult
  /\ exc' = ""
  /\ pc' = "ready"
  /\ UNCHANGED <<fn, arg, use_llm, result, rendered, calls>>
  /\ UNCHANGED <<outlineVars, chatVars>>

NextRepeat == CompileCall \/ CallAgain

SpecRepeat == InitRepeat /\ [][NextRepeat]_vars

\* ------------------------------------------------------------------------
\* Properties of the compiler
\* ------------------------------------------------------------------------
NodeLines(ls) == SelectSeq(ls, LAMBDA l : l.kind = "node")
EdgeLines(ls) == SelectSeq(ls, LAMBDA l : l.kind = "edge")

\* the lines of the bullet at position i of the kept bullets: its ids start "B{i}_"
BulletPrefix(i) == S("B") \o Dec(i) \o S("_")
NodesOfBullet(ls, i) == SelectSeq(NodeLines(ls), LAMBDA l : startswith(l.id, BulletPrefix(i)))
EdgesOfBullet(ls, i) == SelectSeq(EdgeLines(ls), LAMBDA l : startswith(l.to, BulletPrefix(i)))

\* C1: build_mermaid_from_title_bullets returns for every title and bullet list,
\* and the string returned starts with "flowchart TD".
C1_Total ==
  pc # "ready" => pc = "returned" /\ startswith(JoinLines(mmd.lines), S("flowchart TD"))

\* C2 as stated: the text returned holds at least len(bullets)+1 node declaration
\* lines, len(bullets) counting every bullet the caller supplied.
C2_AllBulletsCounted ==
  pc = "returned" => Len(NodeLines(mmd.lines)) >= Len(bullets) + 1

\* C2 as amended: the text returned holds at least k+1 node declaration lines,
\* k counting the supplied bullets that are not blank after trimming.
C2_NonBlankCounted ==
  pc = "returned" => Len(NodeLines(mmd.lines)) >= Len(NonBlank(bullets)) + 1

C2_Witness ==
  /\ pc = "returned"
  /\ Len(bullets) = 2
  /\ Len(NonBlank(bullets)) = 1
  /\ Len(NodeLines(mmd.lines)) = 2

\* C3: every Decision bullet contributes exactly one node (curly braces, class
\* warn, labelled with the whole escaped bullet) and exactly one edge, from the
\* root to that node, whether or not the bullet also holds "->" or ":".
C3_DecisionSingleNode ==
  pc = "returned" =>
    \A i \in 1..Len(NonBlank(bullets)) :
      LET txt == strip(NonBlank(bullets)[i])
          ns == NodesOfBullet(mmd.lines, i)
          es == EdgesOfBullet(mmd.lines, i)
      IN is_decision(txt) =>
           /\ Len(ns) = 1
           /\ ns[1].open = "{" /\ ns[1].close = "}" /\ ns[1].klass = "warn"
           /\ ns[1].label = _esc(txt)
           /\ Len(es) = 1
           /\ es[1].from = RootId(title) /\ es[1].to = ns[1].id

\* ------------------------------------------------------------------------
\* Properties of the outline functions
\* ------------------------------------------------------------------------
\* the k-th slide of the outline returned
Sec(k) == heap[outline.sections[k]]

\* a candidate entry with a str title and a list of str bullets
WellFormed(d) ==
  /\ d.t = "dict"
  /\ d.has = {"title", "bullets"}
  /\ d.title.t = "str"
  /\ d.bullets.t = "list"
  /\ \A i \in DOMAIN d.bullets.items : d.bullets.items[i].t = "str"

\* C4: _normalize_sections(topic="X", sections=[]) returns slide_count 6, the
\* slide {"title": "X", "bullets": []} first, and then the five default slides
\* in order with their bullets intact.
C4_EmptyCandidates ==
  (pc # "ready" /\ op = "_normalize_sections" /\ topic = S("X") /\ sections = <<>>) =>
    /\ pc = "returned"
    /\ outline.slide_count = 6
    /\ Len(outline.sections) = 6
    /\ Sec(1) = Slide(S("X"), <<>>)
    /\ \A k \in 1..5 : Sec(k + 1) = Defaults[k]

\* C5: in every outline returned, the first slide has no bullets and its title
\* is the topic.
C5_FirstSlideIsTopic ==
  pc = "returned" =>
    /\ Sec(1).bullets = PyList(<<>>)
    /\ Sec(1).title = PyStr(topic)

\* C6: _normalize_sections returns slide_count 6 and exactly six sections for
\* every list of 0 to 10 well-formed candidates, and so does _outline_from_blog
\* for every text.
C6_SixSlides ==
  /\ (/\ pc # "ready"
      /\ op = "_normalize_sections"
      /\ \A i \in DOMAIN heap0 : WellFormed(heap0[i]))
       => (pc = "returned" /\ outline.slide_count = 6 /\ Len(outline.sections) = 6)
  /\ (pc # "ready" /\ op = "_outline_from_blog")
       => (pc = "returned" /\ outline.slide_count = 6 /\ Len(outline.sections) = 6)

C6_Witness ==
  /\ pc = "returned"
  /\ op = "_normalize_sections"
  /\ Len(sections) = 10
  /\ Len(outline.sections) = 6

\* C7: in every outline returned each title has at most 70 characters, each
\* slide at most 5 bullets and each bullet at most 120 characters.
C7_Caps ==
  pc = "returned" =>
    \A k \in DOMAIN outline.sections :
      /\ Len(Sec(k).title.s) <= 70
      /\ Len(Sec(k).bullets.items) <= 5
      /\ \A i \in DOMAIN Sec(k).bullets.items : Len(Sec(k).bullets.items[i].s) <= 120

\* C8: _normalize_sections raises for no input: with entries that lack a field,
\* hold a field of another type or are no mapping, it still returns six slides.
C8_NormalizeTotal ==
  (pc # "ready" /\ op = "_normalize_sections") =>
    (pc = "returned" /\ outline.slide_count = 6 /\ Len(outline.sections) = 6)

\* C9: _normalize_sections leaves the caller's list as long as it was and every
\* candidate entry as it was, and the outline returned shares no entry with it.
C9_InputUnchanged ==
  (pc # "ready" /\ op = "_normalize_sections") =>
    /\ Len(sections) = Len(heap0)
    /\ \A i \in DOMAIN heap0 : heap[i] = heap0[i]
    /\ pc = "returned" => \A k \in DOMAIN outline.sections : outline.sections[k] \notin Range(sections)

\* ------------------------------------------------------------------------
\* Properties of _chat
\* ------------------------------------------------------------------------
\* C10: within one call the backends tried are a prefix of the order, each tried
\* once; a backend is tried only after every backend before it gave no text (it
\* was not there, it raised, or its text was empty); and the value returned is
\* the text of the first backend that gave a non-empty text.
C10_AttemptsInOrder ==
  /\ Len(attempts) <= Len(order)
  /\ \A i \in DOMAIN attempts : attempts[i].backend = order[i]
  /\ \A i, j \in DOMAIN attempts : attempts[i].backend = attempts[j].backend => i = j
  /\ \A i \in DOMAIN attempts :
       i < Len(attempts) =>
         \/ attempts[i].behaviour.kind \in {"unavailable", "raises"}
         \/ attempts[i].out = PyStr(<<>>)
  /\ pc = "returned" =>
       /\ attempts # <<>>
       /\ chatOut = attempts[Len(attempts)].out
       /\ chatOut.t = "str" /\ chatOut.s # <<>>
  /\ (pc = "loop" /\ attempts # <<>>) =>
       \/ attempts[Len(attempts)].behaviour.kind \in {"unavailable", "raises"}
       \/ attempts[Len(attempts)].out = PyStr(<<>>)

C10_Witness ==
  /\ pc = "returned"
  /\ Len(attempts) = 2
  /\ attempts[1].behaviour.kind = "replies"
  /\ attempts[2].backend = "groq"

\* an attempt that gave no text: the backend was not there, it raised, or its
\* content was None or ""
SoftFailed(a) ==
  \/ a.behaviour.kind \in {"unavailable", "raises"}
  \/ ~truthy(a.behaviour.content)

\* C11: a finished call of _chat has raised RuntimeError if and only if every
\* backend of the order was tried and soft-failed; a value returned is a
\* non-empty text; and no exception other than that RuntimeError leaves _chat,
\* whatever a backend raised.
C11_RaisesIffAllFailed ==
  /\ pc \in {"returned", "raised"} =>
       (pc = "raised" <=>
          /\ Len(attempts) = Len(order)
          /\ \A i \in DOMAIN attempts : SoftFailed(attempts[i]))
  /\ pc = "raised" <=> exc = "RuntimeError"
  /\ exc \in {"", "RuntimeError"}
  /\ pc = "returned" => truthy(chatOut) /\ chatOut.t = "str" /\ chatOut.s # <<>>

C11_Witness ==
  /\ pc = "raised"
  /\ Len(attempts) = 2
  /\ attempts[1].behaviour.kind = "raises"
  /\ attempts[2].behaviour = Replies(PyStr(<<>>))

\* ------------------------------------------------------------------------
\* Properties of the text functions
\* ------------------------------------------------------------------------
BraceOpens(s) == {i \in DOMAIN s : s[i] = "{"}
BraceCloses(s) == {i \in DOMAIN s : s[i] = "}"}
\* s holds "{" and "}", its last "}" after its first "{"
Braced(s) ==
  /\ BraceOpens(s) # {}
  /\ BraceCloses(s) # {}
  /\ MaxOf(BraceCloses(s)) > MinOf(BraceOpens(s))
FirstToLast(s) == SubSeq(s, MinOf(BraceOpens(s)), MaxOf(BraceCloses(s)))

SameLetter(c, d) ==
  \/ c = d
  \/ \E k \in 1..26 : {c, d} = {UpperLetters[k], LowerLetters[k]}
StartsFolded(s, p) == Len(s) >= Len(p) /\ \A i \in DOMAIN p : SameLetter(s[i], p[i])
upper(s) ==
  [i \in DOMAIN s |->
     IF s[i] \in Range(LowerLetters)
     THEN UpperLetters[CHOOSE k \in 1..26 : LowerLetters[k] = s[i]] ELSE s[i]]

\* C14: _looks_like_mermaid(s) is true exactly when s, trimmed and with the case
\* of its letters ignored, starts with "flowchart" and holds "td" within its
\* first 40 characters; the answer is the same for s within whitespace and for
\* s in upper case; "flowchart TD\n..." and "  FLOWCHART td\n..." are accepted
\* and text that starts with prose is rejected.
C14_ValidatorRule ==
  (pc = "returned" /\ fn = "_looks_like_mermaid" /\ arg.t = "str") =>
    LET s == strip(arg.s)
        accepted ==
          /\ StartsFolded(s, S("flowchart"))
          /\ \E i \in 1..39 :
               i + 1 <= Len(s) /\ SameLetter(s[i], "t") /\ SameLetter(s[i + 1], "d")
    IN /\ result = PyBool(accepted)
       /\ result = PyBool(_looks_like_mermaid(PyStr(S(" \n") \o arg.s \o S("\t "))))
       /\ result = PyBool(_looks_like_mermaid(PyStr(upper(arg.s))))
       /\ arg.s = S("flowchart TD\n  A --> B") => result = PyBool(TRUE)
       /\ arg.s = S("  FLOWCHART td\n  A --> B") => result = PyBool(TRUE)
       /\ arg.s = S("Here is your diagram: flowchart TD") => result = PyBool(FALSE)

C14_Witness ==
  /\ pc = "returned"
  /\ fn = "_looks_like_mermaid"
  /\ arg = PyStr(S("  FLOWCHART td\n  A --> B"))
  /\ result = PyBool(TRUE)

\* ------------------------------------------------------------------------
\* Properties of a request
\* ------------------------------------------------------------------------
\* C12: whatever the backends do and whatever the title and bullets or the topic
\* and blog are, no exception leaves mermaid_from_title_bullets_llm or
\* make_outline: a request that has ended has returned a result, the fallback
\* that follows a total failure or a rejected text having succeeded.
C12_AlwaysDone ==
  (fn \in {"mermaid_from_title_bullets_llm", "make_outline"} /\ pc \in {"done", "failed"})
    => (pc = "done" /\ exc = "")

\* ------------------------------------------------------------------------
\* Properties of the compiled lines
\* ------------------------------------------------------------------------
\* the k-th kept bullet, trimmed, and the start of its ids
KeptText(i) == strip(NonBlank(bullets)[i])
Base(i) == BulletPrefix(i) \o _slug(KeptText(i))

\* the lines open with the header, the three classDef lines and nothing else
\* before the first node line
Preamble(ls) ==
  /\ Len(ls) >= 5
  /\ ls[1] = HeaderLine
  /\ \A k \in 2..4 : ls[k].kind = "classDef"
  /\ <<ls[2].name, ls[3].name, ls[4].name>> = <<"title", "block", "warn">>
  /\ \A k \in 5..Len(ls) : ls[k].kind \in {"node", "edge"}

C16_PipelineChain ==
  pc = "returned" =>
    \A i \in 1..Len(NonBlank(bullets)) :
      LET txt == KeptText(i)
          segs == stripNonEmpty(split(txt, S("->")))
          n == Len(segs)
          ns == NodesOfBullet(mmd.lines, i)
          es == EdgesOfBullet(mmd.lines, i)
          sid(j) == Base(i) \o S("_S") \o Dec(j)
      IN (~is_decision(txt) /\ contains(txt, S("->")) /\ n >= 1) =>
           /\ Len(ns) = n
           /\ \A j \in 1..n : ns[j].id = sid(j - 1) /\ ns[j].label = _esc(segs[j])
           /\ Len(es) = n
           /\ es[1] = EdgeLine(RootId(title), sid(0))
           /\ \A j \in 2..n : es[j] = EdgeLine(sid(j - 2), sid(j - 1))
           /\ txt = S("Identify friction -> Reduce steps -> A/B test") =>
                /\ Len(ns) = 3 /\ Len(es) = 3
                /\ <<ns[1].label, ns[2].label, ns[3].label>>
                     = <<S("Identify friction"), S("Reduce steps"), S("A/B test")>>
           /\ txt = S("Solo ->") => (Len(ns) = 1 /\ Len(es) = 1 /\ ns[1].label = S("Solo"))

C16_Witness ==
  /\ pc = "returned"
  /\ bullets = <<S("Solo ->"), S("Identify friction -> Reduce steps -> A/B test")>>
  /\ Len(NodesOfBullet(mmd.lines, 1)) = 1
  /\ Len(NodesOfBullet(mmd.lines, 2)) = 3
  /\ Len(EdgeLines(mmd.lines)) = 4

\* C17: a bullet "head: tail" that is no Decision and no pipeline, whose tail
\* splits on ",", ";", the bullet glyph or "|" into n >= 1 non-empty trimmed
\* items, gives the head node {base}_H and the item nodes {base}_I1..{base}_In,
\* and exactly n+1 edges, the chain root -> head -> item1 -> ... -> itemn.
C17_HeadingChain ==
  pc = "returned" =>
    \A i \in 1..Len(NonBlank(bullets)) :
      LET txt == KeptText(i)
          colon == MinOf(Occurrences(txt, S(":")))
          head == strip(SubSeq(txt, 1, colon - 1))
          items == stripNonEmpty(splitChars(SubSeq(txt, colon + 1, Len(txt)),
                                            {",", ";", BulletGlyph, "|"}))
          n == Len(items)
          ns == NodesOfBullet(mmd.lines, i)
          es == EdgesOfBullet(mmd.lines, i)
          hid == Base(i) \o S("_H")
          iid(j) == Base(i) \o S("_I") \o Dec(j)
      IN (/\ ~is_decision(txt) /\ ~contains(txt, S("->"))
          /\ contains(txt, S(":")) /\ n >= 1) =>
           /\ Len(ns) = n + 1
           /\ ns[1].id = hid /\ ns[1].label = _esc(head)
           /\ \A j \in 1..n : ns[j + 1].id = iid(j) /\ ns[j + 1].label = _esc(items[j])
           /\ Len(es) = n + 1
           /\ es[1] = EdgeLine(RootId(title), hid)
           /\ es[2] = EdgeLine(hid, iid(1))
           /\ \A j \in 2..n : es[j + 1] = EdgeLine(iid(j - 1), iid(j))
           /\ txt = S("Materials: organic cotton, recycled PET, hemp") =>
                /\ Len(ns) = 4 /\ Len(es) = 4
                /\ <<ns[1].label, ns[2].label, ns[3].label, ns[4].label>>
                     = <<S("Materials"), S("organic cotton"), S("recycled PET"), S("hemp")>>

C17_Witness ==
  /\ pc = "returned"
  /\ bullets = << S("Materials: organic cotton, recycled PET, hemp"),
                  S("Items: a ") \o <<BulletGlyph>> \o S(" b | c; d") >>
  /\ Len(NodesOfBullet(mmd.lines, 1)) = 4
  /\ Len(NodesOfBullet(mmd.lines, 2)) = 5
  /\ Len(EdgeLines(mmd.lines)) = 9

\* C18: no two node lines share an id, also across bullets with the same text
\* and across the positions 1 and 11; both ends of every edge are declared; the
\* root has no incoming edge and every other node exactly one; every edge leads
\* from a node declared earlier to a node declared later, so there is no cycle.
C18_Forest ==
  pc = "returned" =>
    LET ns == NodeLines(mmd.lines)
        es == EdgeLines(mmd.lines)
        at(id) == {k \in DOMAIN ns : ns[k].id = id}
    IN /\ \A a, b \in DOMAIN ns : ns[a].id = ns[b].id => a = b
       /\ \A e \in DOMAIN es : at(es[e].from) # {} /\ at(es[e].to) # {}
       /\ ns[1].id = RootId(title)
       /\ \A e \in DOMAIN es : es[e].to # ns[1].id
       /\ \A k \in 2..Len(ns) : Cardinality({e \in DOMAIN es : es[e].to = ns[k].id}) = 1
       /\ \A e \in DOMAIN es :
            \A a \in at(es[e].from) : \A b \in at(es[e].to) : a < b

C18_Witness ==
  /\ pc = "returned"
  /\ bullets = ElevenBullets
  /\ \E a, b \in DOMAIN mmd.lines :
       /\ mmd.lines[a].kind = "node" /\ mmd.lines[a].id = S("B1_Ship_it")
       /\ mmd.lines[b].kind = "node" /\ mmd.lines[b].id = S("B11_Ship_it")

\* C19: every id in the lines (root, plain, _S, _H and _I ids, in node lines and
\* in edge lines) is a non-empty string over [A-Za-z0-9_], also for a title or
\* bullet of punctuation only or with characters outside ASCII.
IdChars == Alnum \cup {"_"}
IsId(id) == id # <<>> /\ \A k \in DOMAIN id : id[k] \in IdChars
C19_IdAlphabet ==
  pc = "returned" =>
    \A k \in DOMAIN mmd.lines :
      LET l == mmd.lines[k]
      IN /\ l.kind = "node" => IsId(l.id)
         /\ l.kind = "edge" => (IsId(l.from) /\ IsId(l.to))

C19_Witness ==
  /\ pc = "returned"
  /\ title = S("R&D <now>")
  /\ bullets = <<S("!!!"), S("Items: a ") \o <<BulletGlyph>> \o S(" b | c; d")>>
  /\ Len(NodeLines(mmd.lines)) = 7

\* C20 as stated: every id has at most 40 characters.
C20_IdsAtMost40 ==
  pc = "returned" =>
    \A k \in DOMAIN mmd.lines : mmd.lines[k].kind = "node" => Len(mmd.lines[k].id) <= 40

\* the endings the compiler puts after the slug of a bullet
IdSuffixes ==
  {<<>>, S("_H")} \cup {S("_S") \o Dec(j) : j \in 0..12} \cup {S("_I") \o Dec(j) : j \in 1..12}
EndsWith(s, e) == Len(s) >= Len(e) /\ SubSeq(s, Len(s) - Len(e) + 1, Len(s)) = e

\* C20 as amended: the cut at 40 characters is on the slug inside the id: the
\* root id is "T_" and at most 40 more characters, and the id of a node of
\* bullet i is "B{i}_", at most 40 more characters, and one of the endings "",
\* "_H", "_S{j}", "_I{j}".
C20_SlugAtMost40 ==
  pc = "returned" =>
    /\ Len(NodeLines(mmd.lines)[1].id) <= 2 + 40
    /\ \A i \in 1..Len(NonBlank(bullets)) :
         LET ns == NodesOfBullet(mmd.lines, i)
         IN \A k \in DOMAIN ns :
              \E e \in IdSuffixes :
                /\ EndsWith(ns[k].id, e)
                /\ Len(ns[k].id) - Len(BulletPrefix(i)) - Len(e) <= 40

C20_Witness ==
  /\ pc = "returned"
  /\ bullets = <<S("Materials: organic cotton, recycled PET, hemp")>>
  /\ NodesOfBullet(mmd.lines, 1)[1].id
       = S("B1_Materials_organic_cotton_recycled_PET_he_H")
  /\ Len(NodesOfBullet(mmd.lines, 1)[1].id) = 45

NoChat ==
  /\ order = <<>> /\ next = 0 /\ attempts = <<>> /\ chatOut = PyNone
  /\ pc \in {"called", "done", "failed"}

\* the text the compiler returns for the title and the bullets of the request
Compiled == PyStr(JoinLines(build_mermaid_from_title_bullets(title, bullets).lines))

\* the outline the request ended with equals what r holds
SameOutline(r) == outline = r.outline /\ heap = r.heap

\* C22: with generation disabled no backend is attempted. A
\* flowchart_from_title_bullets called with use_llm false or under FAST never
\* calls _chat, and what it renders is the compiler's text; a make_outline under
\* NO_LLM or with a blog that is empty or only whitespace never calls _chat and
\* returns the outline of _outline_from_blog.
C22_NoBackendWhenDisabled ==
  /\ (fn = "flowchart_from_title_bullets" /\ (~use_llm \/ FAST))
       => /\ NoChat
          /\ pc = "done" => rendered = Compiled
  /\ (fn = "make_outline" /\ (NO_LLM \/ strip(blog) = <<>>))
       => /\ NoChat
          /\ pc # "failed"
          /\ pc = "done" => SameOutline(_outline_from_blog(topic, <<>>, blog))

\* a flowchart asked for with use_llm set, under FAST, has been rendered
C22_Witness ==
  /\ fn = "flowchart_from_title_bullets" /\ use_llm /\ FAST
  /\ pc = "done" /\ rendered # PyNone

\* make_outline under NO_LLM, with a blog that has a heading, has returned
C22_WitnessOutline ==
  /\ fn = "make_outline" /\ NO_LLM /\ strip(blog) # <<>>
  /\ pc = "done" /\ outline # NoOutline

\* ------------------------------------------------------------------------
\* Properties of the generative paths and their fallbacks
\* ------------------------------------------------------------------------
\* _chat returned a text that mermaid_from_title_bullets_llm accepts (lines 212)
Accepted == pc # "raised" /\ chatOut.t = "str" /\ _looks_like_mermaid(chatOut)

\* the calls of mermaid_from_title_bullets_llm that have ended, made alone
MermaidEnded == fn = "mermaid_from_title_bullets_llm" /\ pc \in {"done", "failed"}

\* the result is one of the two values, and it passes the validator
TwoValues ==
  /\ result = (IF Accepted THEN PyStr(strip(chatOut.s)) ELSE Compiled)
  /\ _looks_like_mermaid(result)

\* C23: every call of mermaid_from_title_bullets_llm ends with a result that is
\* the trimmed text of the winning backend when that text passes
\* _looks_like_mermaid, and otherwise (no backend answered, or the text was
\* rejected) exactly the text of build_mermaid_from_title_bullets; either way
\* the result passes _looks_like_mermaid.
C23_TwoValues == MermaidEnded => (pc = "done" /\ TwoValues)

\* what does hold: a call that returns, returns one of the two values
C23_TwoValuesWhenReturned == (MermaidEnded /\ pc = "done") => TwoValues

\* a rejected text has been replaced by the compiler's
C23_Replaced ==
  /\ MermaidEnded /\ pc = "done"
  /\ chatOut.t = "str" /\ ~Accepted
  /\ result = Compiled

\* make_outline has ended, having called _chat
OutlineTried == fn = "make_outline" /\ pc \in {"done", "failed"} /\ attempts # <<>>

\* the ways the generative path fails: every backend failed; the winning text
\* holds no JSON object; the text extracted does not parse; the parsed sections
\* make _normalize_sections raise
TotalFailure == chatOut = PyNone
NoJsonObject == chatOut # PyNone /\ ~truthy(_first_json_blob(chatOut))
Parsed == truthy(_first_json_blob(chatOut)) /\ ~json_loads(_first_json_blob(chatOut).s).raised
NoParse == truthy(_first_json_blob(chatOut)) /\ ~Parsed
NormalizeRaises == Parsed /\ GenerativeOutline(topic, chatOut).raised

\* C24: when the generative path of make_outline fails (every backend failed,
\* no JSON object in the winning text, a text that does not parse, sections on
\* which normalization raises) make_outline returns exactly
\* _outline_from_blog(topic, blog_content); when it does not fail the backend's
\* text held a JSON object that parsed, and the outline returned is the
\* normalized outline of that object.
C24_FallbackIsDeriver ==
  OutlineTried =>
    /\ pc = "done"
    /\ (TotalFailure \/ NoJsonObject \/ NoParse \/ NormalizeRaises)
         => SameOutline(_outline_from_blog(topic, <<>>, blog))
    /\ ~(TotalFailure \/ NoJsonObject \/ NoParse \/ NormalizeRaises)
         => Parsed /\ SameOutline(GenerativeOutline(topic, chatOut))
    /\ ~Parsed => SameOutline(_outline_from_blog(topic, <<>>, blog))

\* sections that parsed made normalization raise, and the outline returned is
\* derived from the blog: its second slide carries the blog's heading
C24_Witness ==
  /\ OutlineTried /\ pc = "done"
  /\ NormalizeRaises
  /\ SameOutline(_outline_from_blog(topic, <<>>, blog))
  /\ heap[outline.sections[2]].title = PyStr(S("The Rise"))

\* ------------------------------------------------------------------------
\* Properties of force_json
\* ------------------------------------------------------------------------
\* the raw text of an attempt: the content of the response, "" when there is
\* no response or no content
RawText(a) ==
  IF a.behaviour.kind = "replies" /\ truthy(a.behaviour.content)
  THEN a.behaviour.content.s ELSE <<>>

\* C25: with force_json set, _chat returns the text from the first "{" to the
\* last "}" of the winning backend's raw text (the raw text itself when it has
\* no such pair), and without it the raw text; which backend wins does not
\* depend on force_json: an attempt wins exactly when its raw text is not empty,
\* braces or no braces.
C25_ForceJson ==
  /\ \A i \in DOMAIN attempts :
       LET a == attempts[i]
       IN /\ Wins(a.out) <=> RawText(a) # <<>>
          /\ Wins(TryBackend(a.behaviour, TRUE)) <=> Wins(TryBackend(a.behaviour, FALSE))
          /\ Wins(a.out) <=> (i = Len(attempts) /\ pc = "returned")
  /\ pc = "returned" =>
       LET raw == RawText(attempts[Len(attempts)])
       IN chatOut = PyStr(IF force_json /\ Braced(raw) THEN FirstToLast(raw) ELSE raw)

\* under force_json the second backend won with a text that holds no brace,
\* the first having answered an empty text
C25_Witness ==
  /\ pc = "returned" /\ force_json
  /\ Len(attempts) = 2
  /\ attempts[1].behaviour = Replies(PyStr(<<>>))
  /\ ~Braced(RawText(attempts[2]))
  /\ BraceOpens(RawText(attempts[2])) # {}
  /\ chatOut.s = RawText(attempts[2])

\* under force_json a text with prose around its braces won, cut to the braces
C25_WitnessCut ==
  /\ pc = "returned" /\ force_json
  /\ Braced(RawText(attempts[Len(attempts)]))
  /\ chatOut.s # RawText(attempts[Len(attempts)])

\* ------------------------------------------------------------------------
\* Properties of the outline derived from a blog
\* ------------------------------------------------------------------------
BlogLinesOf == split(blog, S("\n"))

\* the text of the heading on line k, and the lines of the kept headings, in
\* document order: level-2 headings with a text that is not "executive summary"
HeadingText(k) == strip(stripChars(BlogLinesOf[k], {"#", " "}))
KeptHeadings ==
  SelectSeq([k \in 1..Len(BlogLinesOf) |-> k],
            LAMBDA k : /\ IsH2(BlogLinesOf[k])
                       /\ HeadingText(k) # <<>>
                       /\ strip(lower(HeadingText(k))) # S("executive summary"))

\* a line that starts with a hyphen or an asterisk and whitespace
IsBulletLine(l) == Len(l) >= 2 /\ l[1] \in {"-", "*"} /\ l[2] \in Whitespace
BulletLineText(l) == strip(collapseWs(SubSeq(l, 2, Len(l))))

\* the lines between the heading on line k and the next level-2 heading
LinesUnder(k) ==
  LET later == {j \in (k + 1)..Len(BlogLinesOf) : IsH2(BlogLinesOf[j])}
      stop == IF later = {} THEN Len(BlogLinesOf) + 1 ELSE MinOf(later)
  IN [j \in 1..(stop - 1 - k) |-> BlogLinesOf[k + j]]

\* the bullets the bullet lines under the heading on line k give: the first
\* five with a text, collapsed and cut
BulletsOfLines(k) ==
  LET ls == SelectSeq(LinesUnder(k), LAMBDA l : IsBulletLine(l) /\ BulletLineText(l) # <<>>)
      first == Slice(ls, BulletsPerSlide)
  IN [i \in 1..Len(first) |-> Slice(BulletLineText(first[i]), BulletCap)]

\* the heading slides of the outline returned are those of the first five kept
\* headings, in document order, with the titles cut
TitlesFromHeadings ==
  \A i \in 1..Len(KeptHeadings) :
    i <= SlideCount - 1 =>
      Sec(i + 1).title = PyStr(Slice(HeadingText(KeptHeadings[i]), TitleCap))

\* C26: _outline_from_blog takes the level-2 headings as slide titles in
\* document order, skipping every heading whose text is "executive summary" in
\* any case; the bullets of a kept heading are the hyphen or asterisk lines
\* between it and the next level-2 heading and no other line, at most the
\* first five, whitespace-collapsed and cut to 120 characters; at most the
\* first five kept headings are used, as slides 2 to 6.
C26_HeadingsAndBulletLines ==
  (pc = "returned" /\ op = "_outline_from_blog") =>
    /\ TitlesFromHeadings
    /\ \A i \in 1..Len(KeptHeadings) :
         i <= SlideCount - 1 => Sec(i + 1).bullets = StrList(BulletsOfLines(KeptHeadings[i]))

\* what does hold: the titles; and every bullet of a heading slide is the
\* collapsed, cut text of a bullet line under its heading, or of the line that
\* follows a bullet line with no text
C26_TitlesAndLines ==
  (pc = "returned" /\ op = "_outline_from_blog") =>
    /\ TitlesFromHeadings
    /\ \A i \in 1..Len(KeptHeadings) :
         i <= SlideCount - 1 =>
           LET under == LinesUnder(KeptHeadings[i])
               bs == Sec(i + 1).bullets.items
           IN /\ Len(bs) <= BulletsPerSlide
              /\ \A b \in DOMAIN bs :
                   \E j \in DOMAIN under :
                     \/ /\ IsBulletLine(under[j])
                        /\ bs[b].s = Slice(BulletLineText(under[j]), BulletCap)
                     \/ /\ \E m \in 1..(j - 1) :
                             /\ under[m] # <<>> /\ under[m][1] \in {"-", "*"}
                             /\ strip(SubSeq(under[m], 2, Len(under[m]))) = <<>>
                             /\ \A n \in (m + 1)..(j - 1) : strip(under[n]) = <<>>
                        /\ bs[b].s = Slice(strip(collapseWs(under[j])), BulletCap)

\* seven headings: "Executive Summary" skipped, five used, six bullet lines
\* under the first of them
C26_FiveOfSeven ==
  /\ pc = "returned" /\ op = "_outline_from_blog"
  /\ Len(KeptHeadings) = 7
  /\ Sec(2).title = PyStr(S("One"))
  /\ Len(Sec(2).bullets.items) = 5
  /\ Sec(6).title = PyStr(S("Five"))

\* the candidates _outline_from_blog derives: the entry of slide 1, then the
\* heading slides
DerivedCands == <<Slide(topic, <<>>)>> \o HeadingSlides(BlogLinesOf, 1)
\* _normalize_sections applied to them
Normalized == _normalize_sections(topic, DerivedCands, [i \in DOMAIN DerivedCands |-> i])
NormalizedSec(k) == Normalized.heap[Normalized.outline.sections[k]]

\* C27: the deterministic path is the normalizer applied to the derived
\* candidates: the outline _outline_from_blog returns equals
\* _normalize_sections(topic, [entry of slide 1] + heading slides), slide by
\* slide; and with no heading slide derived it is the topic slide followed by
\* the five default slides in order.
C27_DeriverIsNormalizer ==
  (pc = "returned" /\ op = "_outline_from_blog") =>
    /\ ~Normalized.raised
    /\ \A k \in 1..SlideCount : Sec(k) = NormalizedSec(k)
    /\ KeptHeadings = <<>> =>
         /\ Sec(1) = Slide(topic, <<>>)
         /\ \A k \in 2..SlideCount : Sec(k) = Defaults[k - 1]

\* what does hold: the two agree but for the outer whitespace and the cut of
\* titles and bullets, which only the normalizer takes off; and with no heading
\* slide the outline is the topic slide and the five defaults
C27_EqualButForTrim ==
  (pc = "returned" /\ op = "_outline_from_blog") =>
    /\ ~Normalized.raised
    /\ \A k \in 1..SlideCount :
         /\ NormalizedSec(k).title = PyStr(Slice(strip(Sec(k).title.s), TitleCap))
         /\ NormalizedSec(k).bullets = TrimBullets(Sec(k).bullets)
    /\ KeptHeadings = <<>> =>
         /\ Sec(1) = Slide(topic, <<>>)
         /\ \A k \in 2..SlideCount : Sec(k) = Defaults[k - 1]

\* a blog with no heading but "Executive Summary" gave the five defaults
C27_DefaultsOnly ==
  /\ pc = "returned" /\ op = "_outline_from_blog"
  /\ \E k \in DOMAIN BlogLinesOf : IsH2(BlogLinesOf[k])
  /\ KeptHeadings = <<>>
  /\ Sec(6) = Defaults[5]

\* ------------------------------------------------------------------------
\* Properties of the classification of a bullet
\* ------------------------------------------------------------------------
\* the tail of txt after its first ":" holds nothing but separators and
\* whitespace
EmptyTail(txt) ==
  LET colon == MinOf(Occurrences(txt, S(":")))
  IN \A k \in (colon + 1)..Len(txt) :
       txt[k] \in Whitespace \cup {",", ";", BulletGlyph, "|"}

\* C28: the order of the tests in the compiler. A bullet that is no Decision and
\* holds both "->" and ":" is compiled as a pipeline: its nodes are
\* {base}_S0, {base}_S1, ... and none is {base}_H or {base}_I{j}. A bullet that
\* is no pipeline and holds ":" with no non-empty item after it ("Note:",
\* "A: , ;") is compiled as a plain bullet: one node {base} labelled with the
\* whole escaped text, and one edge from the root to it.
C28_Precedence ==
  pc = "returned" =>
    \A i \in 1..Len(NonBlank(bullets)) :
      LET txt == KeptText(i)
          ns == NodesOfBullet(mmd.lines, i)
          es == EdgesOfBullet(mmd.lines, i)
          pipeline == ~is_decision(txt) /\ contains(txt, S("->"))
      IN /\ (pipeline /\ contains(txt, S(":"))) =>
              /\ Len(ns) >= 1
              /\ \A k \in DOMAIN ns : ns[k].id = Base(i) \o S("_S") \o Dec(k - 1)
              /\ Len(es) = Len(ns)
         /\ (~pipeline /\ contains(txt, S(":")) /\ EmptyTail(txt)) =>
              /\ Len(ns) = 1
              /\ ns[1].id = Base(i)
              /\ ns[1].label = _esc(txt)
              /\ es = <<EdgeLine(RootId(title), Base(i))>>

\* a pipeline with a colon in its last step, then a colon with an empty tail
C28_Witness ==
  /\ pc = "returned"
  /\ bullets = <<S("Build -> Test: unit, e2e"), S("A: , ;")>>
  /\ Len(NodesOfBullet(mmd.lines, 1)) = 2
  /\ NodesOfBullet(mmd.lines, 1)[2].label = S("Test: unit, e2e")
  /\ Len(NodesOfBullet(mmd.lines, 2)) = 1
  /\ NodesOfBullet(mmd.lines, 2)[1].label = S("A: , ;")

\* ------------------------------------------------------------------------
\* Properties of the padding
\* ------------------------------------------------------------------------
\* the slides from position q (the first is 1) to the sixth are the defaults
\* of the same positions, the default pool counted from slide 2
AlignedFrom(q) == \A n \in q..SlideCount : Sec(n) = Defaults[n - 1]

\* C29: padding is position-aligned. When _normalize_sections is given k
\* candidates, 1 <= k <= 5, each slide it adds stands at the position its
\* default has in the pool counted after slide 1 (the slide at 0-based position
\* p is default p-1), so the padding does not start over from the first
\* default and the sixth slide is "Next Steps"; the padding of
\* _outline_from_blog after d heading slides, d <= 4, is aligned the same way.
C29_PositionAligned ==
  /\ (pc = "returned" /\ op = "_normalize_sections" /\ Len(sections) \in 1..5) =>
       /\ AlignedFrom(Len(sections) + 1)
       /\ Sec(SlideCount).title = PyStr(S("Next Steps"))
  /\ (pc = "returned" /\ op = "_outline_from_blog" /\ Len(KeptHeadings) <= 4) =>
       /\ AlignedFrom(Len(KeptHeadings) + 2)
       /\ Sec(SlideCount).title = PyStr(S("Next Steps"))

\* three candidates: slides 4 to 6 are the third to fifth default
C29_Witness ==
  /\ pc = "returned" /\ op = "_normalize_sections"
  /\ Len(sections) = 3
  /\ Sec(4).title = PyStr(S("Process / Flow"))
  /\ Sec(5).title = PyStr(S("Use Cases"))
  /\ Sec(6).title = PyStr(S("Next Steps"))

\* two heading slides derived from a blog: slides 4 to 6 are padded
C29_WitnessBlog ==
  /\ pc = "returned" /\ op = "_outline_from_blog"
  /\ Len(KeptHeadings) = 2
  /\ Sec(4).title = PyStr(S("Process / Flow"))

\* ------------------------------------------------------------------------
\* Properties of the text rendered
\* ------------------------------------------------------------------------
\* C30: the diagram text flowchart_from_title_bullets gives to the renderer
\* passes _looks_like_mermaid on every path, with use_llm set or not, under
\* FAST or not, whatever the backends do: a text of the compiler always
\* passes, and a text of a backend that passes is rendered as it is, trimmed.
C30_RenderedIsMermaid ==
  /\ rendered # PyNone =>
       /\ fn = "flowchart_from_title_bullets" /\ pc = "done"
       /\ rendered.t = "str"
       /\ _looks_like_mermaid(rendered)
       /\ rendered = (IF UseLlm /\ Accepted THEN PyStr(strip(chatOut.s)) ELSE Compiled)
  /\ (fn = "flowchart_from_title_bullets" /\ pc = "done") => rendered # PyNone
  /\ (mmd # NoResult /\ ~mmd.raised) => _looks_like_mermaid(PyStr(JoinLines(mmd.lines)))

\* with use_llm set and FAST not, a backend answered prose: the text rendered
\* is the compiler's
C30_Witness ==
  /\ fn = "flowchart_from_title_bullets" /\ pc = "done"
  /\ use_llm /\ ~FAST
  /\ chatOut = PyStr(S("Here is your diagram: A --> B"))
  /\ rendered = Compiled

\* the text of a backend was rendered, trimmed
C30_WitnessBackend ==
  /\ fn = "flowchart_from_title_bullets" /\ pc = "done"
  /\ rendered # Compiled
  /\ rendered.s # chatOut.s

====
